---- MODULE Spec2Model ----
(***************************************************************************)
(* Task & Workflow Automation Agent (src/main.py): the Streamlit session   *)
(* state, one action per user interaction (each interaction is one full    *)
(* run of the script), and the AutomationAgent handlers as operators.      *)
(*                                                                         *)
(* Encodings.                                                              *)
(*  - Python None is the record None; every optional value is a record.    *)
(*  - A Python dict decoded from JSON is a record with a field `keys`      *)
(*    (the keys present) and one field per possible key; the field of an   *)
(*    absent key holds a fixed blank, so record equality is dict equality. *)
(*  - A text is a sequence of tokens; a token is whitespace, one of the    *)
(*    two fence markers, non-JSON prose, or one complete JSON document.    *)
(*  - A DataFrame is its ordered column labels, its row count and one      *)
(*    vector of cells per column.                                          *)
(*  - The leading check-mark glyph of the HR checklist items is left out   *)
(*    of the strings.                                                      *)
(***************************************************************************)
EXTENDS Integers, Sequences, FiniteSets, TLC

VARIABLES
    messages,           \* st.session_state.messages
    workflows,          \* st.session_state.workflows
    task_history,       \* st.session_state.task_history
    uploaded_df,        \* st.session_state.uploaded_df
    uploaded_filename,  \* st.session_state.uploaded_filename
    api_key,            \* value of the sidebar text_input
    uploaded_file,      \* value held by the st.file_uploader widget
    run,                \* what the last run of the script did
    call,               \* the handler call under test: function and arguments
    ret                 \* its outcome

session == <<messages, workflows, task_history, uploaded_df, uploaded_filename>>
vars == <<messages, workflows, task_history, uploaded_df, uploaded_filename,
          api_key, uploaded_file, run, call, ret>>

-----------------------------------------------------------------------------
(* Bounds of the model *)

MaxTextLen == 3      \* tokens in an enumerated model response
MaxMessages == 4     \* chat requests start only while the transcript has room
MaxWorkflows == 1    \* saved workflow definitions

(* Program constants *)

RandRowsMin == 10
RandRowsMax == 100

-----------------------------------------------------------------------------
(* Generic helpers *)

None == [none |-> TRUE]

Range(s) == {s[i] : i \in 1..Len(s)}

RECURSIVE SeqsUpTo(_, _)
SeqsUpTo(S, n) ==
    IF n = 0 THEN {<<>>}
    ELSE LET shorter == SeqsUpTo(S, n - 1)
         IN shorter \cup {Append(s, x) : s \in {t \in shorter : Len(t) = n - 1}, x \in S}

Return(v) == [status |-> "return", value |-> v]
Raise(e) == [status |-> "raise", exc |-> e]

-----------------------------------------------------------------------------
(* JSON objects: the Intent dict and its parameters dict *)

Fields == {"task_type", "action", "parameters", "description"}

JStr(s) == [t |-> "str", s |-> s]
JList == [t |-> "list", s |-> ""]
JNull == [t |-> "null", s |-> ""]

Params(keys, wf, rows) ==
    [keys |-> keys,
     workflow |-> IF "workflow" \in keys THEN wf ELSE JNull,
     rows |-> IF "rows" \in keys THEN rows ELSE 0]

EmptyParams == Params({}, JNull, 0)

Obj(keys, tt, act, params, desc) ==
    [keys |-> keys,
     task_type |-> IF "task_type" \in keys THEN tt ELSE "",
     action |-> IF "action" \in keys THEN act ELSE "",
     parameters |-> IF "parameters" \in keys THEN params ELSE EmptyParams,
     description |-> IF "description" \in keys THEN desc ELSE ""]

-----------------------------------------------------------------------------
(* Texts *)

WS == [tok |-> "ws", doc |-> None]
FenceJson == [tok |-> "fence_json", doc |-> None]   \* the marker of line 76, first replace
Fence == [tok |-> "fence", doc |-> None]            \* the marker of line 76, second replace
Prose == [tok |-> "prose", doc |-> None]
Doc(o) == [tok |-> "json", doc |-> o]

\* str.strip(): leading and trailing whitespace removed
RECURSIVE LStrip(_)
LStrip(s) == IF s # <<>> /\ Head(s) = WS THEN LStrip(Tail(s)) ELSE s

RECURSIVE RStrip(_)
RStrip(s) ==
    IF s # <<>> /\ s[Len(s)] = WS THEN RStrip(SubSeq(s, 1, Len(s) - 1)) ELSE s

Strip(s) == RStrip(LStrip(s))

\* str.replace(old, ""): every occurrence of the marker removed
Replace(s, old) == SelectSeq(s, LAMBDA t : t # old)

\* json.loads accepts one JSON value with whitespace around it, nothing else
NonWS(s) == SelectSeq(s, LAMBDA t : t # WS)

JsonParseable(s) == Len(NonWS(s)) = 1 /\ NonWS(s)[1].tok = "json"

json_loads(s) == NonWS(s)[1].doc

-----------------------------------------------------------------------------
(* The text-completion capability: what one generate_content call does *)

ModelRaises == [kind |-> "raise", text |-> <<>>]     \* generate_content raises
ModelNoText == [kind |-> "no_text", text |-> <<>>]   \* response.text raises
ModelText(t) == [kind |-> "text", text |-> t]

-----------------------------------------------------------------------------
(* AutomationAgent.parse_intent *)

DefaultIntentNoDescription(user_input) ==
    Obj(Fields, "general", "process", EmptyParams, "")

DefaultIntent(user_input) ==
    Obj(Fields, "general", "process", EmptyParams, user_input)

CleanText(text) == Replace(Replace(Strip(text), FenceJson), Fence)

parse_intent(user_input, m) ==
    IF m.kind = "raise" THEN Raise("model_error")
    ELSE IF m.kind = "no_text" THEN Return(DefaultIntent(user_input))
    ELSE LET clean_text == CleanText(m.text)
         IN IF JsonParseable(clean_text)
            THEN Return(json_loads(clean_text))
            ELSE Return(DefaultIntent(user_input))

-----------------------------------------------------------------------------
(* DataFrames and the clock *)

DataFrame(columns, nrows, data) ==
    [columns |-> columns, nrows |-> nrows, data |-> data]

\* A stamp computed again for every row: the clock may move between rows
SetColumnPerRow(df, name, value) ==
    LET columns == IF name \in Range(df.columns) THEN df.columns
                   ELSE Append(df.columns, name)
    IN DataFrame(columns, df.nrows,
                 [c \in Range(columns) |->
                     IF c = name
                     THEN [i \in 1..df.nrows |-> IF i = 1 THEN value ELSE value \o "+"]
                     ELSE df.data[c]])

\* df[name] = value with a scalar value: the column is overwritten when the
\* label exists and appended as the last column otherwise
SetColumn(df, name, value) ==
    LET columns == IF name \in Range(df.columns) THEN df.columns
                   ELSE Append(df.columns, name)
    IN DataFrame(columns, df.nrows,
                 [c \in Range(columns) |->
                     IF c = name THEN [i \in 1..df.nrows |-> value] ELSE df.data[c]])

StrfDateTime(now) == now.date \o " " \o now.hm \o ":" \o now.sec   \* %Y-%m-%d %H:%M:%S
StrfDate(now) == now.date                                          \* %Y-%m-%d
StrfHM(now) == now.hm                                              \* %H:%M

Clock ==
    {[date |-> "2024-05-01", hm |-> "09:30", sec |-> "00"],
     [date |-> "2024-05-01", hm |-> "09:30", sec |-> "01"]}

-----------------------------------------------------------------------------
(* AutomationAgent handlers *)

\* uploaded_df given: lines 82-85; otherwise lines 87-95.  The synthesized
\* branch is modelled for requests that carry no "columns" parameter.
execute_sheet_update(params, udf, now, randrows) ==
    IF udf # None
    THEN LET df == SetColumn(udf, "Last_Updated", StrfDateTime(now))
         IN [df |-> df,
             msg |-> "Processed uploaded sheet: " \o ToString(df.nrows) \o " rows, "
                     \o ToString(Len(df.columns)) \o " columns"]
    ELSE LET rows == IF "rows" \in params.keys THEN params.rows ELSE randrows
             cols == <<"Name", "Value", "Status", "Date">>
         IN [df |-> DataFrame(cols, rows,
                        [c \in Range(cols) |->
                            [i \in 1..rows |->
                                IF c # "Date" THEN "Data_" \o ToString(i - 1)
                                ELSE StrfDate(now)]]),
             msg |-> "Generated " \o ToString(rows) \o " rows across "
                     \o ToString(Len(cols)) \o " columns"]

\* generate_report, create_presentation_outline and the generic completion of
\* lines 407-409 return response.text of one model call
Completion(m) ==
    IF m.kind = "text" THEN Return(m.text) ELSE Raise("model_error")

generate_report(params, m) == Completion(m)

create_presentation_outline(params, m) == Completion(m)

Onboarding ==
    <<"Create employee profile", "Generate welcome email", "Setup system accounts",
      "Schedule orientation", "Assign mentor", "Create training plan">>

Offboarding ==
    <<"Initiate exit process", "Schedule exit interview", "Revoke system access",
      "Process final payroll", "Transfer knowledge docs", "Update org chart">>

LeaveRequest ==
    <<"Validate leave balance", "Check team coverage", "Notify manager",
      "Update calendar", "Adjust workload">>

HrWorkflows ==
    [onboarding |-> Onboarding, offboarding |-> Offboarding, leave_request |-> LeaveRequest]

\* An unknown workflow answered with the leave_request list
hr_workflow_wrong_default(params) ==
    LET workflow_type == IF "workflow" \in params.keys THEN params.workflow
                         ELSE JStr("onboarding")
    IN IF workflow_type.t = "list" THEN Raise("TypeError")
       ELSE IF workflow_type.t = "str" /\ workflow_type.s \in DOMAIN HrWorkflows
            THEN Return(HrWorkflows[workflow_type.s])
            ELSE Return(HrWorkflows["leave_request"])

\* dict.get hashes its key: a JSON array (a Python list) raises TypeError;
\* a string is looked up, any other hashable value is no key of the dict
hr_workflow(params) ==
    LET workflow_type == IF "workflow" \in params.keys THEN params.workflow
                         ELSE JStr("onboarding")
    IN IF workflow_type.t = "list" THEN Raise("TypeError")
       ELSE IF workflow_type.t = "str" /\ workflow_type.s \in DOMAIN HrWorkflows
            THEN Return(HrWorkflows[workflow_type.s])
            ELSE Return(HrWorkflows["onboarding"])

Stages == <<"Prospect", "Qualified", "Proposal", "Negotiation", "Closed">>

\* rnd: the draws of random.choices and random.randint, one per row
sales_automation(params, rnd, now) ==
    DataFrame(<<"Lead", "Stage", "Value", "Probability", "Expected Close">>, 10,
        [c \in {"Lead", "Stage", "Value", "Probability", "Expected Close"} |->
            [i \in 1..10 |->
                CASE c = "Lead" -> "Company_" \o ToString(i)
                  [] c = "Stage" -> Stages[rnd.stage[i]]
                  [] c = "Value" -> ToString(rnd.value[i])
                  [] c = "Probability" -> ToString(rnd.probability[i])
                  [] OTHER -> StrfDate(now) \o " + " \o ToString(rnd.days[i]) \o " days"]])

Categories == <<"Travel", "Software", "Marketing", "Office", "Utilities">>
Budget == <<50000, 30000, 75000, 20000, 15000>>
ActualLo == <<40000, 25000, 60000, 15000, 12000>>
ActualHi == <<55000, 35000, 80000, 25000, 18000>>

\* Variance taken the other way round
finance_task_swapped(params, actual) ==
    DataFrame(<<"Category", "Budget", "Actual", "Variance">>, 5,
              [Category |-> Categories,
               Budget |-> Budget,
               Actual |-> actual,
               Variance |-> [i \in 1..5 |-> actual[i] - Budget[i]]])

\* actual: the five random.randint draws; line 177 overwrites the zeros of
\* line 175 with Budget - Actual, row by row
finance_task(params, actual) ==
    DataFrame(<<"Category", "Budget", "Actual", "Variance">>, 5,
              [Category |-> Categories,
               Budget |-> Budget,
               Actual |-> actual,
               Variance |-> [i \in 1..5 |-> Budget[i] - actual[i]]])

-----------------------------------------------------------------------------
(* Uploaded files and read_uploaded_file *)

FileName(stem, ext) == [stem |-> stem, ext |-> ext]

\* kind: what the bytes are ("utf8" or "latin1" delimited text, an "xlsx" or
\* "xls" workbook, "corrupt"); table: the table the bytes encode
File(name, kind, table) == [name |-> name, kind |-> kind, table |-> table]

Err(msg) == [msg |-> msg]

\* str.lower() on the extensions of the model
Lower(ext) ==
    CASE ext = "CSV" -> "csv"
      [] ext = "XLSX" -> "xlsx"
      [] ext = "XLS" -> "xls"
      [] OTHER -> ext

\* pd.read_csv: the default encoding is UTF-8; latin-1 decodes every byte string
read_csv(f, encoding) ==
    IF f.kind = "utf8" THEN Return(f.table)
    ELSE IF f.kind = "latin1"
         THEN IF encoding = "latin-1" THEN Return(f.table)
              ELSE Raise("UnicodeDecodeError")
         ELSE Raise("ParserError")

\* pd.read_excel: openpyxl reads xlsx workbooks, xlrd reads xls workbooks
read_excel(f, engine) ==
    IF (engine = "openpyxl" /\ f.kind = "xlsx") \/ (engine = "xlrd" /\ f.kind = "xls")
    THEN Return(f.table)
    ELSE Raise("BadWorkbook")

ReadError(exc) == [df |-> None, error |-> Err("Error reading file: " \o exc)]

read_uploaded_file(f) ==
    LET file_name == Lower(f.name.ext)
    IN IF file_name = "csv"
       THEN LET first == read_csv(f, "utf-8")
            IN IF first.status = "return" THEN [df |-> first.value, error |-> None]
               ELSE IF first.exc = "UnicodeDecodeError"
                    THEN LET second == read_csv(f, "latin-1")
                         IN IF second.status = "return"
                            THEN [df |-> second.value, error |-> None]
                            ELSE ReadError(second.exc)
                    ELSE ReadError(first.exc)
       ELSE IF file_name = "xlsx"
            THEN LET r == read_excel(f, "openpyxl")
                 IN IF r.status = "return" THEN [df |-> r.value, error |-> None]
                    ELSE ReadError(r.exc)
       ELSE IF file_name = "xls"
            THEN LET r == read_excel(f, "xlrd")
                 IN IF r.status = "return" THEN [df |-> r.value, error |-> None]
                    ELSE ReadError(r.exc)
       ELSE [df |-> None,
             error |-> Err("Unsupported file format. Please upload CSV, XLSX, or XLS.")]

\* A failed read that drops the table loaded before
UploadSectionClearsOnError(df, filename, file) ==
    IF file = None THEN [df |-> df, filename |-> filename, read |-> None]
    ELSE IF filename # file.name
         THEN LET r == read_uploaded_file(file)
              IN IF r.error # None
                 THEN [df |-> None, filename |-> None, read |-> r]
                 ELSE [df |-> r.df, filename |-> file.name, read |-> r]
         ELSE [df |-> df, filename |-> filename, read |-> None]

\* Lines 220-231: the file held by the uploader is read when its name differs
\* from uploaded_filename.  Result: the two session fields after the section
\* and what read_uploaded_file returned (None when it was not called).
UploadSection(df, filename, file) ==
    IF file = None THEN [df |-> df, filename |-> filename, read |-> None]
    ELSE IF filename # file.name
         THEN LET r == read_uploaded_file(file)
              IN IF r.error # None
                 THEN [df |-> df, filename |-> filename, read |-> r]
                 ELSE IF r.df # None
                      THEN [df |-> r.df, filename |-> file.name, read |-> r]
                      ELSE [df |-> df, filename |-> filename, read |-> r]
         ELSE [df |-> df, filename |-> filename, read |-> None]

-----------------------------------------------------------------------------
(* Inputs of the model *)

UserTexts == {"Start onboarding workflow for new employee", "archive last year's invoices"}

\* in a session: one quick action, one reading of the clock
SessionTexts == {"Start onboarding workflow for new employee"}

SessionClock == {[date |-> "2024-05-01", hm |-> "09:30", sec |-> "00"]}

Table3x2 ==
    DataFrame(<<"Name", "Value">>, 3,
              [Name |-> <<"ann", "bob", "cy">>, Value |-> <<"1", "2", "3">>])

\* a sheet that was stamped before, such as a downloaded updated_sheet.csv
TableStamped ==
    DataFrame(<<"Name", "Last_Updated">>, 2,
              [Name |-> <<"ann", "bob">>,
               Last_Updated |-> <<"2024-04-30 17:00:00", "2024-04-30 17:00:00">>])

TableNoRows == DataFrame(<<"Name">>, 0, [Name |-> <<>>])

Tables == {Table3x2, TableStamped, TableNoRows}

\* files the user can hand to the uploader
SessionFiles ==
    {File(FileName("sales", "csv"), "utf8", Table3x2),
     File(FileName("sales", "csv"), "utf8", TableStamped),
     File(FileName("book", "xlsx"), "corrupt", Table3x2),
     File(FileName("notes", "txt"), "utf8", Table3x2)}

\* files read_uploaded_file is applied to on its own
AllFiles ==
    {File(FileName(stem, ext), kind, Table3x2) :
        stem \in {"sales"},
        ext \in {"csv", "CSV", "xlsx", "xls", "txt"},
        kind \in {"utf8", "latin1", "xlsx", "xls", "corrupt"}}

WorkflowValues ==
    {JStr("onboarding"), JStr("offboarding"), JStr("leave_request"),
     JStr("promotion"), JStr(""), JNull, JList}

HrParams == {EmptyParams} \cup {Params({"workflow"}, w, 0) : w \in WorkflowValues}

SheetParams == {EmptyParams, Params({"rows"}, JNull, 2)}

FullIntent(tt, params) == Obj(Fields, tt, "act", params, "what will be done")

TaskTypes ==
    {"sheet_update", "report_generation", "presentation_creation", "hr_workflow",
     "sales_task", "finance_task"}

\* JSON documents the classifier's model may answer with in a session
ModelDocs ==
    {FullIntent(tt, EmptyParams) : tt \in TaskTypes \cup {"data_cleanup"}}
    \cup {Obj(Fields \ {"parameters"}, "sheet_update", "act", EmptyParams, "d"),
          Obj(Fields \ {"task_type"}, "", "act", EmptyParams, "d")}

SessionOutcomes ==
    {ModelRaises, ModelText(<<Prose>>)}
    \cup {ModelText(<<FenceJson, WS, Doc(d), WS, Fence>>) : d \in ModelDocs}

CompletionOutcomes == {ModelRaises, ModelText(<<Prose>>)}

\* JSON documents of the enumerated classifier responses
TextDocs ==
    {FullIntent("hr_workflow", Params({"workflow"}, JStr("offboarding"), 0)),
     Obj(Fields \ {"parameters"}, "sheet_update", "act", EmptyParams, "d"),
     Obj(Fields \ {"task_type"}, "", "act", EmptyParams, "d"),
     Obj({}, "", "", EmptyParams, "")}

TextTokens == {WS, FenceJson, Fence, Prose} \cup {Doc(o) : o \in TextDocs}

ParseOutcomes ==
    {ModelRaises, ModelNoText}
    \cup {ModelText(t) : t \in SeqsUpTo(TextTokens, MaxTextLen)}

\* the draws of random.randint for the Actual column: the ends of each range,
\* the budget itself and its two neighbours
ActualSamples(i) == {ActualLo[i], Budget[i] - 1, Budget[i], Budget[i] + 1, ActualHi[i]}

SalesDraws ==
    {[stage |-> [i \in 1..10 |-> 1], value |-> [i \in 1..10 |-> 10000],
      probability |-> [i \in 1..10 |-> 10], days |-> [i \in 1..10 |-> 7]]}

-----------------------------------------------------------------------------
(* Chat request processing, lines 328-424 *)

\* str.replace('_', ' ').title() on the task types of the model
Title(tt) ==
    CASE tt = "sheet_update" -> "Sheet Update"
      [] tt = "report_generation" -> "Report Generation"
      [] tt = "presentation_creation" -> "Presentation Creation"
      [] tt = "hr_workflow" -> "Hr Workflow"
      [] tt = "sales_task" -> "Sales Task"
      [] tt = "finance_task" -> "Finance Task"
      [] tt = "general" -> "General"
      [] tt = "data_cleanup" -> "Data Cleanup"
      [] OTHER -> tt

Content(head, msg, steps, text) ==
    [head |-> head, msg |-> msg, steps |-> steps, text |-> text]

\* what a branch of the chain hands on: the handlers it called, then either
\* response_content and response_data or the exception that left the branch
Branch(handlers, out) == [handlers |-> handlers, out |-> out]

Shown(content, data) == Return([content |-> content, data |-> data])

\* `not api_key`
KeyMissingNever(key) == FALSE

KeyMissing(key) == key = ""

\* Lines 352-410.  intent['parameters'] is evaluated before the call: when the
\* key is absent the KeyError leaves the branch and no handler has been called.
Dispatch(intent, user_input, udf, h, now, actual, draws, randrows) ==
    LET tt == intent.task_type
        noparams == "parameters" \notin intent.keys
        params == intent.parameters
    IN IF tt \in TaskTypes /\ noparams THEN Branch(<<>>, Raise("KeyError"))
       ELSE IF tt = "sheet_update"
       THEN LET r == execute_sheet_update(params, udf, now, randrows)
            IN Branch(<<"execute_sheet_update">>,
                      Shown(Content("Sheet Update Complete!", r.msg, <<>>, <<>>), r.df))
       ELSE IF tt = "report_generation"
       THEN LET r == generate_report(params, h)
            IN Branch(<<"generate_report">>,
                      IF r.status = "raise" THEN r
                      ELSE Shown(Content("Report Generated!", "", <<>>, r.value), None))
       ELSE IF tt = "presentation_creation"
       THEN LET r == create_presentation_outline(params, h)
            IN Branch(<<"create_presentation_outline">>,
                      IF r.status = "raise" THEN r
                      ELSE Shown(Content("Presentation Outline Created!", "", <<>>, r.value),
                                 None))
       ELSE IF tt = "hr_workflow"
       THEN LET r == hr_workflow(params)
            IN Branch(<<"hr_workflow">>,
                      IF r.status = "raise" THEN r
                      ELSE Shown(Content("HR Workflow Initiated!", "", r.value, <<>>), None))
       ELSE IF tt = "sales_task"
       THEN Branch(<<"sales_automation">>,
                   Shown(Content("Sales Pipeline Updated!", "", <<>>, <<>>),
                         sales_automation(params, draws, now)))
       ELSE IF tt = "finance_task"
       THEN Branch(<<"finance_task">>,
                   Shown(Content("Finance Report Generated!", "", <<>>, <<>>),
                         finance_task(params, actual)))
       ELSE LET r == Completion(h)
            IN Branch(<<"generate_content">>,
                      IF r.status = "raise" THEN r
                      ELSE Shown(Content("", "", <<>>, r.value), None))

UserMessage(user_input) ==
    [role |-> "user", content |-> Content("", user_input, <<>>, <<>>)]

AssistantMessage(content, data) ==
    IF data # None THEN [role |-> "assistant", content |-> content, data |-> data]
    ELSE [role |-> "assistant", content |-> content]

\* The history entry written as soon as the task type is known, before the
\* handler has run
ProcessInputHistoryFirst(msgs, hist, key, udf, user_input, m, h, now, actual, draws, randrows) ==
    LET none == [messages |-> msgs, task_history |-> hist, blocked |-> FALSE,
                 classified |-> FALSE, dispatched |-> FALSE, handlers |-> <<>>,
                 error |-> FALSE, intent |-> None]
    IN IF KeyMissing(key) THEN [none EXCEPT !.blocked = TRUE]
       ELSE
       LET asked == [none EXCEPT !.messages = Append(msgs, UserMessage(user_input)),
                                 !.classified = TRUE]
           parsed == parse_intent(user_input, m)
       IN IF parsed.status = "raise" THEN [asked EXCEPT !.error = TRUE]
          ELSE
          LET intent == parsed.value
              got == [asked EXCEPT !.intent = intent]
          IN IF "task_type" \notin intent.keys \/ "description" \notin intent.keys
             THEN [got EXCEPT !.error = TRUE]
             ELSE
             LET b == Dispatch(intent, user_input, udf, h, now, actual, draws, randrows)
                 ran == [got EXCEPT !.dispatched = TRUE, !.handlers = b.handlers,
                                    !.task_history =
                                        Append(hist, [name |-> Title(intent.task_type),
                                                      time |-> StrfHM(now)])]
             IN IF b.out.status = "raise" THEN [ran EXCEPT !.error = TRUE]
                ELSE [ran EXCEPT
                        !.messages = Append(asked.messages,
                                            AssistantMessage(b.out.value.content,
                                                             b.out.value.data))]

\* One request: the transcript and history after it, and what it called.
ProcessInput(msgs, hist, key, udf, user_input, m, h, now, actual, draws, randrows) ==
    LET none == [messages |-> msgs, task_history |-> hist, blocked |-> FALSE,
                 classified |-> FALSE, dispatched |-> FALSE, handlers |-> <<>>,
                 error |-> FALSE, intent |-> None]
    IN IF KeyMissing(key) THEN [none EXCEPT !.blocked = TRUE]
       ELSE
       LET asked == [none EXCEPT !.messages = Append(msgs, UserMessage(user_input)),
                                 !.classified = TRUE]
           parsed == parse_intent(user_input, m)
       IN IF parsed.status = "raise" THEN [asked EXCEPT !.error = TRUE]
          ELSE
          LET intent == parsed.value
              got == [asked EXCEPT !.intent = intent]
          IN IF "task_type" \notin intent.keys \/ "description" \notin intent.keys
             THEN [got EXCEPT !.error = TRUE]                      \* lines 345, 346
             ELSE
             LET b == Dispatch(intent, user_input, udf, h, now, actual, draws, randrows)
                 ran == [got EXCEPT !.dispatched = TRUE, !.handlers = b.handlers]
             IN IF b.out.status = "raise" THEN [ran EXCEPT !.error = TRUE]
                ELSE [ran EXCEPT
                        !.messages = Append(asked.messages,
                                            AssistantMessage(b.out.value.content,
                                                             b.out.value.data)),
                        !.task_history = Append(hist,
                                                [name |-> Title(intent.task_type),
                                                 time |-> StrfHM(now)])]

-----------------------------------------------------------------------------
(* The session: one action per user interaction, each one run of the script *)

ApiKeys == {"", "AIza-session-key"}

Idle ==
    [blocked |-> FALSE, classified |-> FALSE, dispatched |-> FALSE,
     handlers |-> <<>>, error |-> FALSE, intent |-> None]

\* op: the interaction that started the run ("rerun": one that neither
\* changes the uploader nor presses Clear nor sends chat input); input: the
\* chat text, if any; read: what read_uploaded_file returned in the run
\* (None: not called).
Ran(op, input, read, p) ==
    [op |-> op, input |-> input, read |-> read, blocked |-> p.blocked,
     classified |-> p.classified, dispatched |-> p.dispatched,
     handlers |-> p.handlers, error |-> p.error, intent |-> p.intent]

Init ==
    /\ messages = <<>>
    /\ workflows = <<>>
    /\ task_history = <<>>
    /\ uploaded_df = None
    /\ uploaded_filename = None
    /\ api_key = ""
    /\ uploaded_file = None
    /\ run = Ran("start", "", None, Idle)
    /\ call = [fn |-> "none"]
    /\ ret = None

\* A run with no button pressed and no chat input: only lines 220-231 act.
PlainRun(op, file) ==
    LET u == UploadSection(uploaded_df, uploaded_filename, file)
    IN /\ uploaded_df' = u.df
       /\ uploaded_filename' = u.filename
       /\ run' = Ran(op, "", u.read, Idle)
       /\ UNCHANGED <<messages, workflows, task_history, call, ret>>

\* the sidebar text_input is edited
SetApiKey(key) ==
    /\ key # api_key
    /\ api_key' = key
    /\ UNCHANGED uploaded_file
    /\ PlainRun("rerun", uploaded_file)

\* the user puts a file into the uploader
SelectFile(f) ==
    /\ f # uploaded_file
    /\ uploaded_file' = f
    /\ UNCHANGED api_key
    /\ PlainRun("upload", f)

\* the user takes the file out of the uploader
RemoveFile ==
    /\ uploaded_file # None
    /\ uploaded_file' = None
    /\ UNCHANGED api_key
    /\ PlainRun("rerun", None)

\* any other widget: a module checkbox, a download button, Run Workflow
Rerender ==
    /\ UNCHANGED <<api_key, uploaded_file>>
    /\ PlainRun("rerun", uploaded_file)

\* Lines 283-286.  The button is on the page when the last run drew the table.
\* st.rerun() ends the run and starts the script again with the widgets as
\* they are: the uploader still holds its file.
ClearUploadedFile ==
    /\ uploaded_file # None
    /\ uploaded_df # None
    /\ LET u == UploadSection(uploaded_df, uploaded_filename, uploaded_file)
       IN /\ u.df # None
          /\ LET again == UploadSection(None, None, uploaded_file)
             IN /\ uploaded_df' = again.df
                /\ uploaded_filename' = again.filename
                /\ run' = Ran("clear", "", again.read, Idle)
    /\ UNCHANGED <<messages, workflows, task_history, api_key, uploaded_file, call, ret>>

\* chat_input or one of the four quick-action buttons
Chat(user_input) ==
    /\ api_key = "" \/ Len(messages) + 2 <= MaxMessages
    /\ \E m \in SessionOutcomes, h \in CompletionOutcomes, now \in SessionClock,
          actual \in {ActualLo}, draws \in SalesDraws :
          LET u == UploadSection(uploaded_df, uploaded_filename, uploaded_file)
              p == ProcessInput(messages, task_history, api_key, u.df, user_input,
                                m, h, now, actual, draws, RandRowsMin)
          IN /\ uploaded_df' = u.df
             /\ uploaded_filename' = u.filename
             /\ messages' = p.messages
             /\ task_history' = p.task_history
             /\ run' = Ran("chat", user_input, u.read, p)
    /\ UNCHANGED <<workflows, api_key, uploaded_file, call, ret>>

\* Lines 451-463.  steps: the text area split at newlines; the empty text
\* splits into the one empty line.
SaveWorkflow(workflow_name, steps, now) ==
    /\ Len(workflows) < MaxWorkflows
    /\ LET u == UploadSection(uploaded_df, uploaded_filename, uploaded_file)
       IN /\ uploaded_df' = u.df
          /\ uploaded_filename' = u.filename
          /\ run' = Ran("rerun", "", u.read, Idle)
    /\ workflows' =
          IF workflow_name # "" /\ steps # <<"">>
          THEN Append(workflows,
                      [name |-> workflow_name, trigger |-> "Manual", category |-> "HR",
                       steps |-> steps,
                       created |-> StrfDate(now) \o " " \o StrfHM(now)])
          ELSE workflows
    /\ UNCHANGED <<messages, task_history, api_key, uploaded_file, call, ret>>

Next ==
    \/ \E key \in ApiKeys : SetApiKey(key)
    \/ \E f \in SessionFiles : SelectFile(f)
    \/ RemoveFile
    \/ Rerender
    \/ ClearUploadedFile
    \/ \E user_input \in SessionTexts : Chat(user_input)
    \/ \E workflow_name \in {"", "weekly sync"}, steps \in {<<"">>, <<"fetch", "update">>},
          now \in SessionClock : SaveWorkflow(workflow_name, steps, now)

Spec == Init /\ [][Next]_vars

-----------------------------------------------------------------------------
(* The handlers on their own: each action is one call on inputs drawn here *)

CallParseIntent ==
    /\ call.fn = "none"
    /\ \E user_input \in UserTexts, m \in ParseOutcomes :
          /\ call' = [fn |-> "parse_intent", user_input |-> user_input, m |-> m]
          /\ ret' = parse_intent(user_input, m)
    /\ UNCHANGED <<session, api_key, uploaded_file, run>>

CallSheetUpdate ==
    /\ call.fn = "none"
    /\ \E params \in SheetParams, udf \in Tables \cup {None}, now \in Clock,
          randrows \in {RandRowsMin, RandRowsMax} :
          /\ call' = [fn |-> "execute_sheet_update", params |-> params, udf |-> udf,
                      now |-> now]
          /\ ret' = Return(execute_sheet_update(params, udf, now, randrows))
    /\ UNCHANGED <<session, api_key, uploaded_file, run>>

CallHrWorkflow ==
    /\ call.fn = "none"
    /\ \E params \in HrParams :
          /\ call' = [fn |-> "hr_workflow", params |-> params]
          /\ ret' = hr_workflow(params)
    /\ UNCHANGED <<session, api_key, uploaded_file, run>>

CallFinanceTask ==
    /\ call.fn = "none"
    /\ \E a1 \in ActualSamples(1), a2 \in ActualSamples(2), a3 \in ActualSamples(3),
          a4 \in ActualSamples(4), a5 \in ActualSamples(5) :
          /\ call' = [fn |-> "finance_task", params |-> EmptyParams]
          /\ ret' = Return(finance_task(EmptyParams, <<a1, a2, a3, a4, a5>>))
    /\ UNCHANGED <<session, api_key, uploaded_file, run>>

CallReadUploadedFile ==
    /\ call.fn = "none"
    /\ \E f \in AllFiles :
          /\ call' = [fn |-> "read_uploaded_file", file |-> f]
          /\ ret' = Return(read_uploaded_file(f))
    /\ UNCHANGED <<session, api_key, uploaded_file, run>>

FnNext ==
    \/ CallParseIntent
    \/ CallSheetUpdate
    \/ CallHrWorkflow
    \/ CallFinanceTask
    \/ CallReadUploadedFile

FnSpec == Init /\ [][FnNext]_vars

-----------------------------------------------------------------------------
(* Properties.  C1, C2, C8, C9 and C10 are checked under FnSpec, the others *)
(* under Spec.                                                             *)

CleanedResponse == CleanText(call.m.text)

\* C1: a classifier response whose text, stripped and with both fence markers
\* removed, is not parseable JSON makes parse_intent return the default Intent
\* {general, process, {}, description = the user's text}.
C1_NonJsonGivesDefault ==
    (call.fn = "parse_intent" /\ call.m.kind = "text" /\ ~JsonParseable(CleanedResponse))
    => /\ ret.status = "return"
       /\ ret.value = [keys |-> Fields, task_type |-> "general", action |-> "process",
                       parameters |-> [keys |-> {}, workflow |-> JNull, rows |-> 0],
                       description |-> call.user_input]

\* a response that holds a JSON document next to prose or a second document
C1_Witness ==
    /\ call.fn = "parse_intent"
    /\ call.m.kind = "text"
    /\ \E i \in 1..Len(call.m.text) : call.m.text[i].tok = "json"
    /\ \E i \in 1..Len(call.m.text) : call.m.text[i] = FenceJson
    /\ ~JsonParseable(CleanedResponse)
    /\ ret.status = "return"
    /\ ret.value.task_type = "general"
    /\ ret.value.description = call.user_input

\* C2: when generate_content raises, or the response is well-formed JSON that
\* lacks one of the four required fields, parse_intent returns the default
\* Intent instead of raising or returning the incomplete object.
C2_ModelErrorOrMissingFieldGivesDefault ==
    (/\ call.fn = "parse_intent"
     /\ \/ call.m.kind = "raise"
        \/ /\ call.m.kind = "text"
           /\ JsonParseable(CleanedResponse)
           /\ json_loads(CleanedResponse).keys # Fields)
    => /\ ret.status = "return"
       /\ ret.value = [keys |-> Fields, task_type |-> "general", action |-> "process",
                       parameters |-> [keys |-> {}, workflow |-> JNull, rows |-> 0],
                       description |-> call.user_input]

HandlerOf(tt) ==
    CASE tt = "sheet_update" -> "execute_sheet_update"
      [] tt = "report_generation" -> "generate_report"
      [] tt = "presentation_creation" -> "create_presentation_outline"
      [] tt = "hr_workflow" -> "hr_workflow"
      [] tt = "sales_task" -> "sales_automation"
      [] tt = "finance_task" -> "finance_task"
      [] OTHER -> "generate_content"

\* C3: a request whose Intent reaches the dispatch chain runs exactly one
\* handler: the one named by task_type, the generic completion otherwise.
C3_ExactlyOneHandler ==
    run.dispatched => run.handlers = <<HandlerOf(run.intent.task_type)>>

\* C4: after the user clears the uploaded file the session holds no table and
\* no file name; the cleared table is not loaded again on its own.
C4_ClearLeavesNoTable ==
    run.op = "clear" => (uploaded_df = None /\ uploaded_filename = None)

Readable(f) == read_uploaded_file(f).error = None

\* C5: after the run started by uploading a new, readable file the session's
\* table is the content of that file, whatever its name and whatever was
\* loaded before.
C5_NewUploadReplacesTable ==
    (run.op = "upload" /\ Readable(uploaded_file))
    => (uploaded_df = uploaded_file.table /\ uploaded_filename = uploaded_file.name)

\* the file has an extension outside csv/xlsx/xls or bytes its reader rejects
FailsToRead(f) ==
    LET e == Lower(f.name.ext)
    IN \/ e \notin {"csv", "xlsx", "xls"}
       \/ e = "csv" /\ f.kind \notin {"utf8", "latin1"}
       \/ e = "xlsx" /\ f.kind # "xlsx"
       \/ e = "xls" /\ f.kind # "xls"

\* C6: when the uploaded file cannot be read, read_uploaded_file returns
\* (None, message) and the run leaves uploaded_df, uploaded_filename, messages,
\* task_history and workflows as they were.
C6_FailedReadLeavesSession ==
    [][(run'.op = "upload" /\ FailsToRead(uploaded_file'))
       => /\ run'.read # None => (run'.read.df = None /\ run'.read.error # None)
          /\ UNCHANGED session]_vars

\* a failed read while a table from an earlier upload and a transcript exist
C6_Witness ==
    /\ run.op = "upload"
    /\ FailsToRead(uploaded_file)
    /\ run.read # None
    /\ run.read.df = None
    /\ run.read.error # None
    /\ uploaded_df # None
    /\ messages # <<>>

\* C7: input arriving while no API key is configured starts no request: no
\* message, no history entry, no classifier call, no handler call; the session
\* is untouched and only the blocking error is shown.
C7_NoKeyNoRequest ==
    [][(run'.op = "chat" /\ api_key' = "")
       => /\ UNCHANGED session
          /\ run'.blocked
          /\ ~run'.classified
          /\ ~run'.dispatched
          /\ run'.handlers = <<>>]_vars

\* the key was taken out after an earlier request went through
C7_Witness ==
    /\ run.op = "chat"
    /\ api_key = ""
    /\ run.blocked
    /\ messages # <<>>
    /\ task_history # <<>>

LastUpdated == ret.value.df.data["Last_Updated"]

\* C8 as stated: every uploaded table of R rows and C columns comes back with
\* R rows and C+1 columns, Last_Updated holding one stamp in every row.
C8_AlwaysOneMoreColumn ==
    (call.fn = "execute_sheet_update" /\ call.udf # None)
    => /\ ret.value.df.nrows = call.udf.nrows
       /\ Len(ret.value.df.columns) = Len(call.udf.columns) + 1
       /\ \A i, j \in 1..call.udf.nrows : LastUpdated[i] = LastUpdated[j]

\* C8 as amended: R rows; C+1 columns with Last_Updated appended last when the
\* table has no such column, C columns with that column overwritten when it
\* has; the other columns are untouched and Last_Updated holds one stamp in
\* every row.
C8_StampedSheet ==
    (call.fn = "execute_sheet_update" /\ call.udf # None)
    => /\ ret.value.df.nrows = call.udf.nrows
       /\ ret.value.df.columns =
             IF \E k \in 1..Len(call.udf.columns) : call.udf.columns[k] = "Last_Updated"
             THEN call.udf.columns
             ELSE call.udf.columns \o <<"Last_Updated">>
       /\ \A k \in 1..Len(call.udf.columns) :
             call.udf.columns[k] # "Last_Updated"
             => ret.value.df.data[call.udf.columns[k]] = call.udf.data[call.udf.columns[k]]
       /\ Len(LastUpdated) = call.udf.nrows
       /\ \A i, j \in 1..call.udf.nrows : LastUpdated[i] = LastUpdated[j]

\* a sheet of two rows that already had the column: still two columns
C8_Witness ==
    /\ call.fn = "execute_sheet_update"
    /\ call.udf # None
    /\ call.udf.nrows >= 2
    /\ \E k \in 1..Len(call.udf.columns) : call.udf.columns[k] = "Last_Updated"
    /\ Len(ret.value.df.columns) = Len(call.udf.columns)
    /\ LastUpdated[1] # call.udf.data["Last_Updated"][1]

ChecklistFor(w) ==
    IF w = JStr("offboarding") THEN Offboarding
    ELSE IF w = JStr("leave_request") THEN LeaveRequest
    ELSE Onboarding

WorkflowArgument == IF "workflow" \in call.params.keys THEN call.params.workflow ELSE None

SessionUntouched ==
    /\ messages = <<>>
    /\ workflows = <<>>
    /\ task_history = <<>>
    /\ uploaded_df = None
    /\ uploaded_filename = None

\* C9 as stated: hr_workflow maps every workflow value to a fixed list, the
\* onboarding list for every value other than the three names and for a
\* missing parameter, and changes no session state.
C9_EveryValueMapsToChecklist ==
    call.fn = "hr_workflow"
    => /\ ret.status = "return"
       /\ ret.value = IF WorkflowArgument = None THEN Onboarding
                      ELSE ChecklistFor(WorkflowArgument)
       /\ SessionUntouched

\* C9 as amended: the same for every hashable workflow value (string, number,
\* boolean, null) and a missing parameter; the onboarding list has six items
\* and starts with "Create employee profile", the offboarding list has six.
C9_HashableValueMapsToChecklist ==
    (call.fn = "hr_workflow" /\ WorkflowArgument # JList)
    => /\ ret.status = "return"
       /\ ret.value = IF WorkflowArgument = None THEN Onboarding
                      ELSE ChecklistFor(WorkflowArgument)
       /\ ret.value \in {Onboarding, Offboarding} => Len(ret.value) = 6
       /\ ret.value = Onboarding => ret.value[1] = "Create employee profile"
       /\ SessionUntouched

\* an unrecognized name answered with the onboarding list
C9_Witness ==
    /\ call.fn = "hr_workflow"
    /\ WorkflowArgument = JStr("promotion")
    /\ ret.status = "return"
    /\ Len(ret.value) = 6
    /\ ret.value[1] = "Create employee profile"
    /\ ret.value[6] = "Create training plan"

\* C10: in every table finance_task builds, Variance = Budget - Actual in each
\* of the five rows, and the Budget column is 50000, 30000, 75000, 20000,
\* 15000 for Travel, Software, Marketing, Office, Utilities in that order.
C10_VarianceIsBudgetMinusActual ==
    call.fn = "finance_task"
    => /\ ret.value.nrows = 5
       /\ ret.value.data["Category"] =
             <<"Travel", "Software", "Marketing", "Office", "Utilities">>
       /\ ret.value.data["Budget"] = <<50000, 30000, 75000, 20000, 15000>>
       /\ \A i \in 1..5 :
             ret.value.data["Variance"][i]
                = ret.value.data["Budget"][i] - ret.value.data["Actual"][i]

\* one category over budget, one under, one exactly on it
C10_Witness ==
    /\ call.fn = "finance_task"
    /\ ret.value.data["Variance"][1] < 0
    /\ ret.value.data["Variance"][2] > 0
    /\ ret.value.data["Variance"][3] = 0
    /\ ret.value.data["Actual"][4] = 15000
    /\ ret.value.data["Actual"][5] = 18000

CountRole(msgs, role) == Cardinality({i \in 1..Len(msgs) : msgs[i].role = role})

IsPrefix(s, t) == Len(s) <= Len(t) /\ SubSeq(t, 1, Len(s)) = s

TranscriptBalanced ==
    /\ Len(task_history) = CountRole(messages, "assistant")
    /\ CountRole(messages, "assistant") <= CountRole(messages, "user")

\* C11: in every reachable session state the transcript and the task history
\* have only grown by appending, the history has as many entries as the
\* transcript has assistant messages, and there are never more assistant than
\* user messages; a request whose classifier or handler raises adds its user
\* message and nothing else, a request blocked for a missing key adds nothing.
C11_TranscriptAndHistory ==
    /\ TranscriptBalanced
    /\ [][/\ IsPrefix(messages, messages')
          /\ IsPrefix(task_history, task_history')
          /\ TranscriptBalanced'
          /\ (run'.op = "chat" /\ run'.error)
             => /\ messages' = Append(messages, UserMessage(run'.input))
                /\ task_history' = task_history
          /\ (run'.op = "chat" /\ run'.blocked)
             => (messages' = messages /\ task_history' = task_history)
          /\ (run'.op = "chat" /\ ~run'.error /\ ~run'.blocked)
             => /\ Len(messages') = Len(messages) + 2
                /\ messages'[Len(messages') - 1] = UserMessage(run'.input)
                /\ messages'[Len(messages')].role = "assistant"
                /\ Len(task_history') = Len(task_history) + 1]_vars

\* a handler raised in a request that followed a successful one
C11_Witness ==
    /\ run.op = "chat"
    /\ run.error
    /\ run.handlers # <<>>
    /\ Len(messages) = 3
    /\ messages[2].role = "assistant"
    /\ messages[3] = UserMessage(run.input)
    /\ Len(task_history) = 1

====
